---- MODULE Spec2Model ----
(***************************************************************************)
(* Model of the Chrome remote-debugger client                              *)
(* (src/LiveDevelopment/Inspector/ChromeInspector.js).                     *)
(*                                                                         *)
(* JavaScript values are records tagged by the field js; a dotted name     *)
(* such as "Page.navigate" is the sequence of its segments, so that        *)
(* split(".") is the identity on the representation.  The jQuery event     *)
(* registry ($exports and $(exports[domain])) is the sequence `listeners`. *)
(* `trace` holds the externally visible effects of the last handler run,   *)
(* in the order the handler produced them.                                 *)
(***************************************************************************)
EXTENDS Integers, Sequences, FiniteSets, TLC

\* ---------------------------------------------------------------- bounds
MaxCalls == 2        \* bound-command calls made in a run
MaxAttempts == 2     \* attach requests issued in a run
MaxListeners == 1    \* listeners registered at a time
MaxFsCalls == 2      \* filesystem shim calls made in a run

\* ------------------------------------------------------------- JS values
JSUndefined == [js |-> "undefined"]
JSNull == [js |-> "null"]
JSTrue == [js |-> "boolean", val |-> TRUE]
Str(s) == [js |-> "string", val |-> s]
PortRef(p) == [js |-> "object", port |-> p]
DeferredRef(d) == [js |-> "object", deferred |-> d]
\* the marker written by _onMessage when the nested result is absent
UndefinedMarker == [js |-> "object", type |-> "undefined"]
RemoteObject == [js |-> "object", type |-> "string", value |-> "v"]

\* JavaScript truthiness, for the values the model uses
Truthy(v) == v.js \notin {"undefined", "null"}
\* property read obj.name: undefined when the property is absent
Prop(obj, name) == IF name \in DOMAIN obj THEN obj[name] ELSE JSUndefined

\* ---------------------------------------------------------------- schema
\* Inspector.json as used by init(): method -> ordered parameter descriptors
Schema ==
    [m \in {<<"Page", "navigate">>, <<"Page", "reload">>} |->
        IF m = <<"Page", "navigate">>
        THEN << [js |-> "object", name |-> "url"] >>
        ELSE << [js |-> "object", name |-> "ignoreCache", optional |-> JSTrue],
                [js |-> "object", name |-> "scriptToEvaluateOnLoad",
                 optional |-> JSTrue] >>]
Methods == DOMAIN Schema
\* init() creates exports[domain] for every domain of the schema; DOM is a
\* domain whose commands the model does not call
Domains == {m[1] : m \in Methods} \cup {"DOM"}
EventNames == {"loadEventFired", "frameNavigated"}
Handlers == {"h1"}
ArgValues == {JSUndefined, Str("a"), Str("b")}
\* positional argument lists of a bound-command call (callback excluded):
\* nothing supplied, the first argument alone, the second one alone, both
ArgLists ==
    { <<>>, <<Str("a")>>, <<JSUndefined, Str("a")>>, <<Str("a"), Str("b")>> }

VARIABLES
    _messageId,         \* next correlation id
    _messageCallbacks,  \* id -> continuation
    _connectDeferred,   \* the deferred of the current connectToURL, if any
    _port,              \* the current port, undefined/null when none
    _portId,            \* number of ports created so far
    ports,              \* per created port: open, listeners attached
    deferreds,          \* per connectToURL deferred: state and argument
    pendingAttach,      \* attachDebugger requests awaiting their callback
    listeners,          \* jQuery registry, in registration order
    calls,              \* per bound-command call: its id (0: not sent), invocations
    sent,               \* envelopes handed to ports, in order: port and id
    nAttempts,          \* attach requests issued so far
    trace,              \* effects of the last handler, in order
    fsCalls,            \* per filesystem shim call: the native requests still
                        \* to run and the callback invocations so far
    superseded          \* history: the pending attach requests issued before a
                        \* disconnect() that no connect has followed yet

vars == <<_messageId, _messageCallbacks, _connectDeferred, _port, _portId, ports,
          deferreds, pendingAttach, listeners, calls, sent, nAttempts, trace,
          fsCalls, superseded>>

\* ------------------------------------------------------------ jQuery core
\* $(target).on(name, handler): the first segment is the event type, the
\* remaining segments are namespaces
jqOn(ls, target, name, h) ==
    Append(ls, [target |-> target, type |-> name[1], ns |-> Tail(name), h |-> h])

RECURSIVE jqFilter(_, _, _, _)
\* $(target).off(name, handler): drops the listeners of that type, handler
\* and namespaces
jqFilter(ls, target, name, h) ==
    IF ls = <<>> THEN <<>>
    ELSE LET l == Head(ls)
             hit == /\ l.target = target
                    /\ l.type = name[1]
                    /\ l.h = h
                    /\ \A i \in 1..Len(Tail(name)) :
                          \E j \in 1..Len(l.ns) : l.ns[j] = Tail(name)[i]
         IN  IF hit THEN jqFilter(Tail(ls), target, name, h)
             ELSE <<l>> \o jqFilter(Tail(ls), target, name, h)

RECURSIVE jqHandlers(_, _, _, _)
\* the handler invocations of $(target).triggerHandler(type, data)
jqHandlers(ls, target, type, data) ==
    IF ls = <<>> THEN <<>>
    ELSE LET l == Head(ls)
         IN  (IF l.target = target /\ l.type = type
              THEN << [k |-> "handler", listener |-> l, data |-> data] >>
              ELSE <<>>) \o jqHandlers(Tail(ls), target, type, data)

\* $(target).triggerHandler(type, data) as a sequence of effects
triggerHandler(ls, target, type, data) ==
    << [k |-> "trigger", target |-> target, type |-> type, data |-> data] >>
        \o jqHandlers(ls, target, type, data)

\* ------------------------------------------------------------- messages
EventParams == [js |-> "object", timestamp |-> 42]
ErrorPayload == [js |-> "object", message |-> "e"]
ResultPayloads == { [js |-> "object", result |-> r] : r \in {JSUndefined, RemoteObject} }
Message(id, error, result, method, params) ==
    [id |-> id, error |-> error, result |-> result, method |-> method, params |-> params]
\* ids a response can carry: 0 (never issued) and every id the run can issue
ResponseIds == 0..MaxCalls
ResponseMessages ==
    { Message(i, JSUndefined, r, JSUndefined, JSUndefined) :
        i \in ResponseIds, r \in ResultPayloads }
\* an error alone, and an error that also carries an id and a result
ErrorMessages ==
    { Message(0, ErrorPayload, JSUndefined, JSUndefined, JSUndefined),
      Message(1, ErrorPayload, [js |-> "object", result |-> RemoteObject],
              JSUndefined, JSUndefined) }
EventMessages ==
    { Message(0, JSUndefined, JSUndefined, <<d, e>>, EventParams) :
        d \in Domains, e \in EventNames }
InboundMessages == ResponseMessages \cup ErrorMessages \cup EventMessages

\* ---------------------------------------------------------------- _send
\* args[i] of a JavaScript array: undefined past the end
ArgAt(args, i) == IF i <= Len(args) THEN args[i] ELSE JSUndefined

_verifySignature(signature, value) ==
    [ret |-> TRUE,
     eff |-> IF value = JSUndefined /\ Prop(signature, "optional") # JSTrue
             THEN << [k |-> "assert",
                      msg |-> <<"Missing argument: ", Prop(signature, "name")>>] >>
             ELSE <<>>]

RECURSIVE sendVerify(_, _, _)
\* the effects of the parameter loop of _send over signature[i..]
sendVerify(signature, args, i) ==
    IF i > Len(signature) THEN <<>>
    ELSE _verifySignature(ArgAt(args, i), signature[i]).eff
            \o sendVerify(signature, args, i + 1)

\* sendParams writing null for the arguments that were not supplied
sendParamsNull(signature, args) ==
    [n \in {signature[i].name : i \in 1..Len(signature)} |->
        LET i == CHOOSE j \in 1..Len(signature) : signature[j].name = n
        IN  IF ArgAt(args, i) = JSUndefined THEN JSNull ELSE ArgAt(args, i)]

\* the params object built by the parameter loop of _send
sendParams(signature, args) ==
    [n \in {signature[i].name : i \in
                {j \in 1..Len(signature) :
                    _verifySignature(ArgAt(args, j), signature[j]).ret}} |->
        LET i == CHOOSE j \in 1..Len(signature) : signature[j].name = n
        IN  ArgAt(args, i)]

\* the envelope as the port transmits it: JSON leaves out the properties of
\* params whose value is undefined
serialize(message) ==
    [message EXCEPT !.params =
        [n \in {k \in DOMAIN message.params : message.params[k] # JSUndefined} |->
            message.params[n]]]

\* the continuation of the call-th bound-command call: the caller's function,
\* or the function that resolves the deferred whose promise _send returns
Callback(call, style) == [js |-> "function", call |-> call, style |-> style]

\* allocId without the post-increment
allocIdStuck(port, id) == id

\* allocId with the id taken before the port is checked
allocIdEager(port, id) == id + 1

\* the id counter after a bound-command call: untouched by the early return
\* when there is no port, else post-incremented
allocId(port, id) == IF Truthy(port) THEN id + 1 ELSE id

\* a bound command exports[domain][command](args.., [callback])
_send(method, args, style) ==
    /\ Len(calls) < MaxCalls
    /\ IF ~Truthy(_port)
       THEN /\ calls' = Append(calls, [id |-> 0, invoked |-> 0])
            /\ trace' = << [k |-> "return", value |-> JSUndefined] >>
            /\ _messageId' = allocId(_port, _messageId)
            /\ UNCHANGED <<_messageCallbacks, sent>>
       ELSE LET id == _messageId
                call == Len(calls) + 1
                message == [cmd |-> "sendCommand", method |-> method,
                            params |-> sendParams(Schema[method], args), id |-> id]
            IN  /\ _messageId' = allocId(_port, _messageId)
                /\ _messageCallbacks' =
                      [i \in DOMAIN _messageCallbacks \cup {id} |->
                          IF i = id THEN Callback(call, style)
                          ELSE _messageCallbacks[i]]
                /\ calls' = Append(calls, [id |-> id, invoked |-> 0])
                /\ sent' = Append(sent, [port |-> _port.port, id |-> id])
                /\ trace' = sendVerify(Schema[method], args, 1)
                              \o << [k |-> "postMessage", port |-> _port.port,
                                     message |-> message, wire |-> serialize(message)],
                                    [k |-> "return",
                                     value |-> IF style = "callback" THEN JSUndefined
                                               ELSE [js |-> "object", promise |-> call]] >>
    /\ UNCHANGED <<fsCalls, superseded, _connectDeferred, _port, _portId, ports, deferreds,
                   pendingAttach, listeners, nAttempts>>

\* ------------------------------------------------------- port callbacks
\* _onDisconnect also dropping the pending continuations
_onDisconnectClear(p) ==
    /\ p \in DOMAIN ports
    /\ ports[p].open /\ ports[p].onDisconnect
    /\ ports' = [ports EXCEPT ![p].open = FALSE]
    /\ trace' = triggerHandler(listeners, "exports", "disconnect", JSUndefined)
    /\ _port' = JSNull
    /\ _messageCallbacks' = [i \in {} |-> 0]
    /\ UNCHANGED <<fsCalls, superseded, _messageId, _connectDeferred, _portId,
                   deferreds, pendingAttach, listeners, calls, sent, nAttempts>>

\* the port p was closed by the other end: its onDisconnect listener runs
_onDisconnect(p) ==
    /\ p \in DOMAIN ports
    /\ ports[p].open /\ ports[p].onDisconnect
    /\ ports' = [ports EXCEPT ![p].open = FALSE]
    /\ trace' = triggerHandler(listeners, "exports", "disconnect", JSUndefined)
    /\ _port' = JSNull
    /\ UNCHANGED <<fsCalls, superseded, _messageId, _messageCallbacks, _connectDeferred, _portId,
                   deferreds, pendingAttach, listeners, calls, sent, nAttempts>>

\* jQuery: settling a deferred that is no longer pending does nothing
settle(ds, d, state, arg) ==
    IF ds[d].state = "pending"
    THEN [ds EXCEPT ![d] = [state |-> state, arg |-> arg]]
    ELSE ds

\* _onError(error) on the values it reads: the new values and the effects
_onError(cd, ds, ls, error) ==
    [cd |-> IF Truthy(cd) THEN JSNull ELSE cd,
     ds |-> IF Truthy(cd) THEN settle(ds, cd.deferred, "rejected", JSUndefined) ELSE ds,
     eff |-> (IF Truthy(cd)
              THEN << [k |-> "reject", deferred |-> cd.deferred, arg |-> JSUndefined] >>
              ELSE <<>>)
             \o triggerHandler(ls, "exports", "error", error)]

\* _onConnect clearing the deferred without resolving it
_onConnectNoResolve(cd, ds, ls) ==
    [cd |-> IF Truthy(cd) THEN JSNull ELSE cd,
     ds |-> ds,
     eff |-> triggerHandler(ls, "exports", "connect", JSUndefined)]

\* _onConnect() on the values it reads
_onConnect(cd, ds, ls) ==
    [cd |-> IF Truthy(cd) THEN JSNull ELSE cd,
     ds |-> IF Truthy(cd) THEN settle(ds, cd.deferred, "resolved", JSUndefined) ELSE ds,
     eff |-> (IF Truthy(cd)
              THEN << [k |-> "resolve", deferred |-> cd.deferred] >>
              ELSE <<>>)
             \o triggerHandler(ls, "exports", "connect", JSUndefined)]

\* normalize leaving an absent nested result as it is
normalizeNone(result) == result

\* the response with its nested result normalized
normalize(result) ==
    IF ~Truthy(Prop(result, "result"))
    THEN [js |-> "object", result |-> UndefinedMarker]
    ELSE result

\* getCallback falling back to the oldest pending continuation
getCallbackOldest(table, id) ==
    IF id \in DOMAIN table THEN table[id]
    ELSE IF DOMAIN table # {}
    THEN table[CHOOSE i \in DOMAIN table : \A j \in DOMAIN table : i <= j]
    ELSE JSUndefined

\* getCallback serving responses in the order the calls were made
getCallbackFifo(table, id) ==
    IF id \in DOMAIN table
    THEN table[CHOOSE i \in DOMAIN table : \A j \in DOMAIN table : i <= j]
    ELSE JSUndefined

\* _messageCallbacks[id]: the stored continuation, undefined when there is none
getCallback(table, id) == IF id \in DOMAIN table THEN table[id] ELSE JSUndefined

\* deleteCallback without the delete
deleteCallbackKeep(table, id) == table

\* delete _messageCallbacks[id]
deleteCallback(table, id) == [i \in DOMAIN table \ {id} |-> table[i]]

\* classify testing the result field before the error field
classifyResultFirst(response) ==
    IF Truthy(response.result) THEN "result"
    ELSE IF Truthy(response.error) THEN "error"
    ELSE "event"

\* the branch _onMessage takes: error first, then result, else event
classify(response) ==
    IF Truthy(response.error) THEN "error"
    ELSE IF Truthy(response.result) THEN "result"
    ELSE "event"

\* announce publishing the generic notification after the specific handling
announceLate(ls, response, rest) ==
    rest \o triggerHandler(ls, "exports", "message", response)

\* the generic "message" notification, then the effects of the specific
\* handling
announce(ls, response, rest) ==
    triggerHandler(ls, "exports", "message", response) \o rest

\* the port p delivered the message response: the listener _onMessage runs
\* with it
_onMessage(p, response) ==
    /\ p \in DOMAIN ports
    /\ ports[p].open /\ ports[p].onMessage
    /\ LET entry == << [k |-> "onMessage", response |-> response] >> IN
       IF classify(response) = "error"
       THEN /\ trace' = entry \o announce(listeners, response,
                            triggerHandler(listeners, "exports", "error",
                                           response.error))
            /\ UNCHANGED <<_messageCallbacks, calls>>
       ELSE IF classify(response) = "result"
       THEN IF Truthy(getCallback(_messageCallbacks, response.id))
            THEN LET callback == getCallback(_messageCallbacks, response.id)
                     arg == normalize(response.result)
                 IN  /\ trace' = entry \o announce(listeners, response,
                              << [k |-> "callback", call |-> callback.call,
                                  arg |-> arg] >>
                              \o (IF callback.style = "promise"
                                  THEN << [k |-> "resolve", promise |-> callback.call,
                                           arg |-> arg] >>
                                  ELSE <<>>))
                     /\ calls' = [calls EXCEPT ![callback.call].invoked = @ + 1]
                     /\ _messageCallbacks' =
                           deleteCallback(_messageCallbacks, response.id)
            ELSE /\ trace' = entry \o announce(listeners, response, <<>>)
                 /\ UNCHANGED <<_messageCallbacks, calls>>
       ELSE LET domain == response.method[1]
                method == response.method[2]
            IN  /\ trace' = entry \o announce(listeners, response,
                          IF domain \in Domains
                          THEN triggerHandler(listeners, domain, method, response.params)
                          ELSE <<>>)
                /\ UNCHANGED <<_messageCallbacks, calls>>
    /\ UNCHANGED <<fsCalls, superseded, _messageId, _connectDeferred, _port, _portId, ports, deferreds,
                   pendingAttach, listeners, sent, nAttempts>>

\* ------------------------------------------------------ public functions
on(name, handler) ==
    /\ Len(listeners) < MaxListeners
    /\ listeners' = jqOn(listeners, "exports", name, handler)
    /\ trace' = <<>>
    /\ UNCHANGED <<fsCalls, superseded, _messageId, _messageCallbacks, _connectDeferred, _port, _portId,
                   ports, deferreds, pendingAttach, calls, sent, nAttempts>>

off(name, handler) ==
    /\ listeners # <<>>
    /\ listeners' = jqFilter(listeners, "exports", name, handler)
    /\ trace' = <<>>
    /\ UNCHANGED <<fsCalls, superseded, _messageId, _messageCallbacks, _connectDeferred, _port, _portId,
                   ports, deferreds, pendingAttach, calls, sent, nAttempts>>

\* a caller's $(Inspector[domain]).on(type, handler), the registration that
\* the dispatch $(exports[domain]).triggerHandler(method, ..) serves
onDomain(domain, type, handler) ==
    /\ Len(listeners) < MaxListeners
    /\ listeners' = jqOn(listeners, domain, <<type>>, handler)
    /\ trace' = <<>>
    /\ UNCHANGED <<fsCalls, superseded, _messageId, _messageCallbacks, _connectDeferred, _port, _portId,
                   ports, deferreds, pendingAttach, calls, sent, nAttempts>>

ResolvedPromise == [js |-> "object", promise |-> "resolved"]

\* disconnectBody closing the port without checking that there is one
disconnectBodyUnguarded(port, ps) ==
    IF Truthy(port)
    THEN [port |-> JSNull,
          ports |-> [ps EXCEPT ![port.port] =
                        [open |-> FALSE, onDisconnect |-> FALSE, onMessage |-> FALSE]],
          eff |-> << [k |-> "port.disconnect", port |-> port.port] >>,
          ret |-> ResolvedPromise]
    ELSE [port |-> port, ports |-> ps,
          eff |-> << [k |-> "throw", error |-> "TypeError"] >>, ret |-> JSUndefined]

\* disconnect() on the values it reads
disconnectBody(port, ps) ==
    IF Truthy(port)
    THEN [port |-> JSNull,
          ports |-> [ps EXCEPT ![port.port] =
                        [open |-> FALSE, onDisconnect |-> FALSE, onMessage |-> FALSE]],
          eff |-> << [k |-> "port.disconnect", port |-> port.port] >>,
          ret |-> ResolvedPromise]
    ELSE [port |-> port, ports |-> ps, eff |-> <<>>, ret |-> ResolvedPromise]

disconnect ==
    LET r == disconnectBody(_port, ports)
    IN  /\ _port' = r.port
        /\ ports' = r.ports
        /\ trace' = r.eff \o << [k |-> "return", value |-> r.ret] >>
        /\ superseded' = {a.n : a \in pendingAttach}
        /\ UNCHANGED <<fsCalls, _messageId, _messageCallbacks, _connectDeferred, _portId,
                       deferreds, pendingAttach, listeners, calls, sent, nAttempts>>

\* connect() on the values it reads; started is the deferred current at the call
connectBody(port, ps, pending, n, started) ==
    LET r == disconnectBody(port, ps)
    IN  [port |-> r.port,
         ports |-> r.ports,
         pending |-> pending \cup {[n |-> n + 1, started |-> started]},
         eff |-> r.eff \o << [k |-> "sendMessage", cmd |-> "attachDebugger"] >>]

connect ==
    /\ nAttempts < MaxAttempts
    /\ LET r == connectBody(_port, ports, pendingAttach, nAttempts, _connectDeferred)
       IN  /\ _port' = r.port
           /\ ports' = r.ports
           /\ pendingAttach' = r.pending
           /\ trace' = r.eff
    /\ nAttempts' = nAttempts + 1
    /\ superseded' = {}
    /\ UNCHANGED <<fsCalls, _messageId, _messageCallbacks, _connectDeferred, _portId,
                   deferreds, listeners, calls, sent>>

\* the callback of the attachDebugger request a
attachCallback(a, outcome) ==
    /\ a \in pendingAttach
    /\ pendingAttach' = pendingAttach \ {a}
    /\ superseded' = superseded \ {a.n}
    /\ CASE outcome = "lastError" ->
               \* result is undefined: reading result.error throws
               /\ trace' = << [k |-> "throw", error |-> "TypeError"] >>
               /\ UNCHANGED <<_connectDeferred, deferreds, _port, _portId, ports>>
         [] outcome = "error" ->
               LET r == _onError(_connectDeferred, deferreds, listeners, ErrorPayload)
               IN  /\ _connectDeferred' = r.cd
                   /\ deferreds' = r.ds
                   /\ trace' = r.eff
                   /\ UNCHANGED <<_port, _portId, ports>>
         [] OTHER ->
               LET r == _onConnect(_connectDeferred, deferreds, listeners)
               IN  /\ _port' = PortRef(_portId)
                   /\ _portId' = _portId + 1
                   /\ ports' = [p \in DOMAIN ports \cup {_portId} |->
                                   IF p = _portId
                                   THEN [open |-> TRUE, onDisconnect |-> TRUE,
                                         onMessage |-> TRUE]
                                   ELSE ports[p]]
                   /\ _connectDeferred' = r.cd
                   /\ deferreds' = r.ds
                   /\ trace' = << [k |-> "runtime.connect", port |-> _portId] >> \o r.eff
    /\ UNCHANGED <<fsCalls, _messageId, _messageCallbacks, listeners, calls, sent, nAttempts>>

connectToURL ==
    /\ nAttempts < MaxAttempts
    /\ LET d == Len(deferreds) + 1
           cancelled == IF Truthy(_connectDeferred)
                        THEN settle(deferreds, _connectDeferred.deferred,
                                    "rejected", Str("CANCEL"))
                        ELSE deferreds
           r == connectBody(_port, ports, pendingAttach, nAttempts, DeferredRef(d))
       IN  /\ deferreds' = Append(cancelled, [state |-> "pending", arg |-> JSUndefined])
           /\ _connectDeferred' = DeferredRef(d)
           /\ _port' = r.port
           /\ ports' = r.ports
           /\ pendingAttach' = r.pending
           /\ trace' = (IF Truthy(_connectDeferred)
                        THEN << [k |-> "reject", deferred |-> _connectDeferred.deferred,
                                 arg |-> Str("CANCEL")] >>
                        ELSE <<>>)
                       \o r.eff
                       \o << [k |-> "return", value |-> [js |-> "object", promise |-> d]] >>
    /\ nAttempts' = nAttempts + 1
    /\ superseded' = {}
    /\ UNCHANGED <<fsCalls, _messageId, _messageCallbacks, _portId, listeners, calls, sent>>

connected == _port

\* ------------------------------------------------------ chromeShell/fs.js
\* the error codes installed by onInitFs
NO_ERROR == 0
ERR_NOT_FOUND == 3
Num(n) == [js |-> "number", val |-> n]
\* the FileError object that the HTML5 filesystem hands to an error callback
FileError == [js |-> "object", name |-> "FileError"]

FsPaths == {"/", "/a", "/a.txt", "/d/a.txt"}
\* path.indexOf(".") !== -1
HasDot(path) == path \in {"/a.txt", "/d/a.txt"}
\* newPath.substr(0, newPath.lastIndexOf("/") + 1)
newDirName(path) == IF path = "/d/a.txt" THEN "/d/" ELSE "/"

\* a native request of the HTML5 filesystem and the first argument that the
\* caller's callback receives when the request fails
Request(name, onFailure) == [req |-> name, onFailure |-> onFailure]

\* the handler made by createErrorHandler(callback) calls callback(error, null)
createErrorHandler == FileError

\* each shim function as the chain of native requests it issues; the success
\* of the last one calls callback(NO_ERROR, ..)
readdir(path) ==
    IF path = "/"
    THEN << Request("readEntries", createErrorHandler) >>
    ELSE << Request("getDirectory", createErrorHandler),
            Request("readEntries", createErrorHandler) >>

makedir(path) == << Request("getDirectory", createErrorHandler) >>

\* stat("/") answers at once; the other paths answer ERR_NOT_FOUND on failure
stat(path) ==
    IF path = "/" THEN <<>>
    ELSE IF HasDot(path) THEN << Request("getFile", Num(ERR_NOT_FOUND)) >>
    ELSE << Request("getDirectory", Num(ERR_NOT_FOUND)) >>

\* reader.onloadend runs when the read ends, failed or not
readFile(path) ==
    << Request("getFile", createErrorHandler),
       Request("file", createErrorHandler),
       Request("readAsText", Num(NO_ERROR)) >>

\* fileWriter.onerror only logs; fileWriter.onwriteend runs when the write
\* ends, failed or not
writeFile(path) ==
    << Request("getFile", createErrorHandler),
       Request("createWriter", createErrorHandler),
       Request("write", Num(NO_ERROR)) >>

\* rename passes callback itself as the error callback of every request
rename(newPath) ==
    IF newDirName(newPath) = "/"
    THEN << Request("getFile", FileError), Request("moveTo", FileError) >>
    ELSE << Request("getFile", FileError), Request("getDirectory", FileError),
            Request("moveTo", FileError) >>

unlink(path) ==
    IF HasDot(path)
    THEN << Request("getFile", createErrorHandler),
            Request("remove", createErrorHandler) >>
    ELSE << Request("getDirectory", createErrorHandler),
            Request("removeRecursively", createErrorHandler) >>

FsOps == {"readdir", "makedir", "stat", "readFile", "writeFile", "rename", "unlink"}
Requests(op, path) ==
    CASE op = "readdir" -> readdir(path)
      [] op = "makedir" -> makedir(path)
      [] op = "stat" -> stat(path)
      [] op = "readFile" -> readFile(path)
      [] op = "writeFile" -> writeFile(path)
      [] op = "rename" -> rename(path)
      [] op = "unlink" -> unlink(path)

inspectorVars ==
    <<_messageId, _messageCallbacks, _connectDeferred, _port, _portId, ports,
      deferreds, pendingAttach, listeners, calls, sent, nAttempts, trace,
      superseded>>

\* window.shell.fs[op](path, .., callback): the call issues its first native
\* request, or calls back at once when it needs none
fsCall(op, path) ==
    /\ Len(fsCalls) < MaxFsCalls
    /\ fsCalls' = Append(fsCalls,
                     [op |-> op, path |-> path, chain |-> Requests(op, path),
                      failed |-> FALSE,
                      cb |-> IF Requests(op, path) = <<>>
                             THEN << Num(NO_ERROR) >> ELSE <<>>])
    /\ UNCHANGED inspectorVars

\* the native request that the i-th shim call is waiting for ends: on
\* success the next request is issued or the callback gets NO_ERROR, on
\* failure the callback gets what the request's error callback passes on
fsRequestDone(i, ok) ==
    /\ i \in 1..Len(fsCalls)
    /\ fsCalls[i].chain # <<>>
    /\ LET c == fsCalls[i]
           rest == Tail(c.chain)
       IN  fsCalls' = [fsCalls EXCEPT ![i] =
              IF ok
              THEN [c EXCEPT !.chain = rest,
                             !.cb = IF rest = <<>> THEN Append(@, Num(NO_ERROR)) ELSE @]
              ELSE [c EXCEPT !.chain = <<>>,
                             !.failed = TRUE,
                             !.cb = Append(@, Head(c.chain).onFailure)]]
    /\ UNCHANGED inspectorVars

\* ------------------------------------------------------- specification
Init ==
    /\ _messageId = 1
    /\ _messageCallbacks = [i \in {} |-> 0]
    /\ _connectDeferred = JSUndefined
    /\ _port = JSUndefined
    /\ _portId = 0
    /\ ports = [p \in {} |-> 0]
    /\ deferreds = <<>>
    /\ pendingAttach = {}
    /\ listeners = <<>>
    /\ calls = <<>>
    /\ sent = <<>>
    /\ nAttempts = 0
    /\ trace = <<>>
    /\ fsCalls = <<>>
    /\ superseded = {}

\* commands, responses, error messages and the lifecycle driven by connect();
\* no listener is registered and no event is delivered
Next ==
    \/ \E m \in Methods, args \in ArgLists, style \in {"callback", "promise"} :
          _send(m, args, style)
    \/ \E p \in DOMAIN ports : _onDisconnect(p)
    \/ \E p \in DOMAIN ports, msg \in ResponseMessages \cup ErrorMessages :
          _onMessage(p, msg)
    \/ disconnect
    \/ connect
    \/ \E a \in pendingAttach, o \in {"ok", "error", "lastError"} : attachCallback(a, o)

Spec == Init /\ [][Next]_vars

\* commands without arguments and without callback, responses and the
\* lifecycle driven by connectToURL()
NextURL ==
    \/ \E m \in Methods : _send(m, <<>>, "promise")
    \/ \E p \in DOMAIN ports : _onDisconnect(p)
    \/ \E p \in DOMAIN ports, msg \in ResponseMessages : _onMessage(p, msg)
    \/ disconnect
    \/ connectToURL
    \/ \E a \in pendingAttach, o \in {"ok", "error", "lastError"} : attachCallback(a, o)

SpecURL == Init /\ [][NextURL]_vars

\* the connection lifecycle alone: connect() and connectToURL() interleaved,
\* no command is issued and no message delivered
NextConnect ==
    \/ \E p \in DOMAIN ports : _onDisconnect(p)
    \/ disconnect
    \/ connect
    \/ connectToURL
    \/ \E a \in pendingAttach, o \in {"ok", "error", "lastError"} : attachCallback(a, o)

SpecConnect == Init /\ [][NextConnect]_vars

\* listener registration, inbound messages and the connection lifecycle; no
\* command is issued
NextEvents ==
    \/ \E d \in Domains, e \in EventNames, h \in Handlers : on(<<d, e>>, h)
    \/ \E h \in Handlers : on(<<"message">>, h)
    \/ \E d \in Domains, e \in EventNames, h \in Handlers : off(<<d, e>>, h)
    \/ \E d \in Domains, e \in EventNames, h \in Handlers : onDomain(d, e, h)
    \/ \E p \in DOMAIN ports : _onDisconnect(p)
    \/ \E p \in DOMAIN ports, msg \in InboundMessages : _onMessage(p, msg)
    \/ disconnect
    \/ connect
    \/ \E a \in pendingAttach, o \in {"ok", "error", "lastError"} : attachCallback(a, o)

SpecEvents == Init /\ [][NextEvents]_vars

\* the filesystem shim alone
NextFs ==
    \/ \E op \in FsOps, path \in FsPaths : fsCall(op, path)
    \/ \E i \in 1..MaxFsCalls, ok \in BOOLEAN : fsRequestDone(i, ok)

SpecFs == Init /\ [][NextFs]_vars

\* commands and every class of inbound message on connections opened by
\* connect()
NextMessages ==
    \/ \E m \in Methods, style \in {"callback", "promise"} : _send(m, <<>>, style)
    \/ \E p \in DOMAIN ports, msg \in InboundMessages : _onMessage(p, msg)
    \/ connect
    \/ \E a \in pendingAttach : attachCallback(a, "ok")

SpecMessages == Init /\ [][NextMessages]_vars

\* ------------------------------------------------------------ properties
\* the step delivered the inbound message msg to _onMessage
Delivered(msg) ==
    /\ trace' # <<>>
    /\ trace'[1] = [k |-> "onMessage", response |-> msg]

\* the state follows the delivery of the inbound message msg
JustDelivered(msg) ==
    /\ trace # <<>>
    /\ trace[1] = [k |-> "onMessage", response |-> msg]

\* the continuation invocations recorded in a sequence of effects
CallbackEntries(t) == {i \in 1..Len(t) : t[i].k = "callback"}

\* C1: the ids of the commands actually sent start at 1, are strictly
\* increasing in call order (hence pairwise distinct), and the counter stays
\* above every id already sent, whatever connects, disconnects and closures
\* happened in between.
C1_IdsStrictlyIncreasing ==
    /\ sent # <<>> => sent[1].id = 1
    /\ \A i, j \in 1..Len(sent) : i < j => sent[i].id < sent[j].id
    /\ \A i \in 1..Len(sent) : sent[i].id < _messageId

\* two commands sent on two different ports, i.e. across a reconnect
C1_Witness ==
    /\ Len(sent) = 2
    /\ sent[1].port # sent[2].port

\* C2: a response whose id is in the table invokes that call's continuation
\* once, with the result payload (nested result normalized), and removes the
\* entry; no continuation is ever invoked twice and a removed id never
\* comes back.
C2_ResponseResolvesOnce ==
    [][ /\ \A msg \in ResponseMessages :
              (Delivered(msg) /\ msg.id \in DOMAIN _messageCallbacks) =>
                  LET call == _messageCallbacks[msg.id].call
                      payload == IF msg.result.result = JSUndefined
                                 THEN [js |-> "object", result |-> UndefinedMarker]
                                 ELSE msg.result
                  IN  /\ Cardinality(CallbackEntries(trace')) = 1
                      /\ \E i \in CallbackEntries(trace') :
                            trace'[i] = [k |-> "callback", call |-> call,
                                         arg |-> payload]
                      /\ calls'[call].invoked = calls[call].invoked + 1
                      /\ msg.id \notin DOMAIN _messageCallbacks'
        /\ \A c \in 1..Len(calls') : calls'[c].invoked <= 1
        /\ \A id \in 1..(_messageId - 1) :
              id \notin DOMAIN _messageCallbacks => id \notin DOMAIN _messageCallbacks'
      ]_vars

\* a duplicate of an already resolved response has just been delivered
C2_Witness ==
    \E c \in 1..Len(calls), msg \in ResponseMessages :
        /\ calls[c].invoked = 1
        /\ msg.id = calls[c].id
        /\ JustDelivered(msg)
        /\ CallbackEntries(trace) = {}

\* C3: a response whose id is not a key of the table invokes no continuation,
\* raises nothing, publishes no error notification and leaves the table as
\* it was.
C3_UnknownIdDiscarded ==
    [][ \A msg \in ResponseMessages :
            (Delivered(msg) /\ msg.id \notin DOMAIN _messageCallbacks) =>
                /\ \A i \in 1..Len(trace') :
                      /\ trace'[i].k \notin {"callback", "throw"}
                      /\ trace'[i].k = "trigger" => trace'[i].type # "error"
                /\ _messageCallbacks' = _messageCallbacks
                /\ calls' = calls
      ]_vars

\* a response with a never-issued id delivered while another call is pending
C3_Witness ==
    \E msg \in ResponseMessages :
        /\ JustDelivered(msg)
        /\ msg.id \notin DOMAIN _messageCallbacks
        /\ msg.id = 0
        /\ DOMAIN _messageCallbacks # {}

\* the step is a bound-command call made while connected() is falsy
IdleCall == Len(calls') = Len(calls) + 1 /\ ~Truthy(connected)

\* C5: a bound command called while no port is set hands no envelope to any
\* port, throws nothing, consumes no id and inserts nothing into the table.
C5_SendWithoutPortIsNoOp ==
    [][ IdleCall =>
            /\ trace' = << [k |-> "return", value |-> JSUndefined] >>
            /\ sent' = sent
            /\ _messageId' = _messageId
            /\ _messageCallbacks' = _messageCallbacks
      ]_vars

\* a command was sent, the port went away, and a second command was called
C5_Witness ==
    /\ Len(calls) = 2
    /\ calls[1].id = 1
    /\ calls[2].id = 0
    /\ trace = << [k |-> "return", value |-> JSUndefined] >>
    /\ ~Truthy(connected)

\* the client counts as disconnected and disconnect() is called
IdleDisconnect == disconnect /\ ~Truthy(connected)

C10_ClosureKeepsPendingCalls ==
    [][ /\ \A p \in DOMAIN ports :
              _onDisconnect(p) =>
                  /\ ~Truthy(connected')
                  /\ trace'[1] = [k |-> "trigger", target |-> "exports",
                                  type |-> "disconnect", data |-> JSUndefined]
                  /\ CallbackEntries(trace') = {}
                  /\ _messageCallbacks' = _messageCallbacks
                  /\ calls' = calls
        /\ \A id \in DOMAIN _messageCallbacks :
              \/ id \in DOMAIN _messageCallbacks'
                   /\ _messageCallbacks'[id] = _messageCallbacks[id]
              \/ \E msg \in ResponseMessages : msg.id = id /\ Delivered(msg)
      ]_vars

\* a call left pending by a closure is still pending on the next port
C10_Witness ==
    /\ Len(sent) = 1
    /\ 1 \in DOMAIN _messageCallbacks
    /\ calls[1].invoked = 0
    /\ Truthy(connected)
    /\ connected.port # sent[1].port
    /\ ~ports[sent[1].port].open
    /\ ports[sent[1].port].onDisconnect

\* the listener l was registered for the event <domain>.<eventName>: through
\* on("<domain>.<eventName>", h) or on the domain object for <eventName>
RegisteredFor(l, domain, eventName) ==
    \/ l.target = "exports" /\ l.type = domain /\ l.ns = <<eventName>>
    \/ l.target = domain /\ l.type = eventName /\ l.ns = <<>>

\* the listeners that the last handler invoked with data
InvokedWith(data) ==
    {trace[i].listener : i \in {j \in 1..Len(trace) :
        trace[j].k = "handler" /\ trace[j].data = data}}

\* C4: an inbound event "<Domain>.<eventName>" invokes, with the message's
\* params, every listener registered for that pair and no listener
\* registered for another domain or event name.
C4_EventReachesItsListeners ==
    \A msg \in EventMessages :
        JustDelivered(msg) =>
            \A i \in 1..Len(listeners) :
                RegisteredFor(listeners[i], msg.method[1], msg.method[2])
                    <=> listeners[i] \in InvokedWith(msg.params)

\* the open ports
OpenPorts == {p \in DOMAIN ports : ports[p].open}

\* C6: at most one transport handle is open at a time, also when two
\* connect() calls are issued before either attach request has completed.
C6_AtMostOneOpenPort == Cardinality(OpenPorts) <= 1

\* the deferreds that are neither resolved nor rejected
Unsettled == {d \in 1..Len(deferreds) : deferreds[d].state = "pending"}

\* C7: when connectToURL is called again while the first attempt is
\* outstanding, the first future is rejected with "CANCEL" before the second
\* attempt resolves, at most one future is unsettled at any time, and once
\* both attempts have succeeded the client is connected over exactly one
\* open handle.
C7_DoubleConnectToURL ==
    /\ Cardinality(Unsettled) <= 1
    /\ (Len(deferreds) = 2 /\ deferreds[1].arg = Str("CANCEL")) =>
          /\ deferreds[1].state = "rejected"
          /\ (pendingAttach = {} /\ trace # <<>>
                /\ trace[1] = [k |-> "runtime.connect", port |-> 1]) =>
                    /\ Truthy(connected)
                    /\ Cardinality(OpenPorts) = 1

\* the declared parameters of method that are not optional and whose value
\* in the params object is undefined
MissingRequired(method, params) ==
    {i \in 1..Len(Schema[method]) :
        /\ Prop(Schema[method][i], "optional") # JSTrue
        /\ params[Schema[method][i].name] = JSUndefined}

\* C8: a call that leaves a non-optional parameter undefined is signalled by
\* an assertion naming the parameter, and is nevertheless given an id,
\* recorded in the table and sent.
C8_MissingArgumentSignalled ==
    \A i \in 1..Len(trace) :
        trace[i].k = "postMessage" =>
            /\ trace[i].message.id \in DOMAIN _messageCallbacks
            /\ sent[Len(sent)].id = trace[i].message.id
            /\ \A m \in MissingRequired(trace[i].message.method,
                                        trace[i].message.params) :
                  \E j \in 1..Len(trace) :
                      trace[j] = [k |-> "assert",
                                  msg |-> <<"Missing argument: ",
                                            Schema[trace[i].message.method][m].name>>]

\* the step answered an attach request and created a port
AttachSucceeded ==
    /\ Cardinality(pendingAttach') < Cardinality(pendingAttach)
    /\ _portId' = _portId + 1

\* the step answered an attach request and created no port
AttachFailed ==
    /\ Cardinality(pendingAttach') < Cardinality(pendingAttach)
    /\ _portId' = _portId

\* the positions of the notifications of the given type in a sequence of effects
Notifications(t, type) ==
    {i \in 1..Len(t) : t[i].k = "trigger" /\ t[i].target = "exports" /\ t[i].type = type}

\* C11: a successful connect attempt leaves connected() truthy on an open
\* port, publishes `connect` exactly once, and resolves and clears the
\* pending connect future if there is one.
C11_ConnectSuccess ==
    [][ AttachSucceeded =>
            /\ Truthy(connected')
            /\ ports'[connected'.port].open
            /\ Cardinality(Notifications(trace', "connect")) = 1
            /\ Truthy(_connectDeferred) =>
                  /\ deferreds'[_connectDeferred.deferred].state = "resolved"
                  /\ ~Truthy(_connectDeferred')
      ]_vars

\* an attempt has just succeeded and resolved the pending connect future
C11_Witness ==
    /\ Len(trace) = 3
    /\ trace[1].k = "runtime.connect"
    /\ trace[2].k = "resolve"
    /\ deferreds[trace[2].deferred].state = "resolved"
    /\ Truthy(connected)

\* C12: a failed connect attempt publishes an `error` notification carrying
\* the error, rejects and clears the pending connect future if there is one,
\* opens no port and leaves the client disconnected.
C12_ConnectFailure ==
    [][ AttachFailed =>
            /\ \E i \in Notifications(trace', "error") : Truthy(trace'[i].data)
            /\ Truthy(_connectDeferred) =>
                  /\ deferreds'[_connectDeferred.deferred].state = "rejected"
                  /\ ~Truthy(_connectDeferred')
            /\ ports' = ports
            /\ ~Truthy(connected')
      ]_vars

\* C20: a connectToURL future is settled only by the reply to the attach
\* request that the same call issued, or with "CANCEL" by a later
\* connectToURL call.
C20_FutureSettledByOwnAttempt ==
    [][ \A d \in 1..Len(deferreds) :
            (deferreds[d].state = "pending" /\ deferreds'[d].state # "pending") =>
                \/ /\ deferreds'[d] = [state |-> "rejected", arg |-> Str("CANCEL")]
                   /\ Len(deferreds') = Len(deferreds) + 1
                \/ \E a \in pendingAttach \ pendingAttach' :
                      a.started = DeferredRef(d)
      ]_vars


\* Scenario A: the response {id: 1, result: {}}
ScenarioAResponse ==
    Message(1, JSUndefined, [js |-> "object", result |-> JSUndefined],
            JSUndefined, JSUndefined)

\* Scenario A: Page.navigate(u, cb) is the first command sent while connected
ScenarioASend(u) ==
    /\ _send(<<"Page", "navigate">>, <<u>>, "callback")
    /\ Truthy(_port)
    /\ sent = <<>>

\* Scenario A: the envelope handed to the transport
ScenarioAEnvelope(u) ==
    \E i \in 1..Len(trace') :
        /\ trace'[i].k = "postMessage"
        /\ trace'[i].message = [cmd |-> "sendCommand", method |-> <<"Page", "navigate">>,
                                params |-> [url |-> u], id |-> 1]

\* C13 as stated: in Scenario A the envelope has method Page.navigate, params
\* {url: u} and id 1, and the response {id: 1, result: {}} invokes cb with the
\* marker {type: "undefined"} itself and removes id 1 from the table.
C13_ScenarioA_Stated ==
    [][ /\ \A u \in {v \in ArgValues : <<v>> \in ArgLists} : ScenarioASend(u) => ScenarioAEnvelope(u)
        /\ (Delivered(ScenarioAResponse) /\ 1 \in DOMAIN _messageCallbacks) =>
              /\ \E i \in CallbackEntries(trace') : trace'[i].arg = UndefinedMarker
              /\ 1 \notin DOMAIN _messageCallbacks'
      ]_vars

\* C13 amended: in Scenario A the envelope has method Page.navigate, params
\* {url: u} and id 1, and the response {id: 1, result: {}} invokes cb with the
\* result payload whose nested result is the marker, {result: {type:
\* "undefined"}}, and removes id 1 from the table.
C13_ScenarioA ==
    [][ /\ \A u \in {v \in ArgValues : <<v>> \in ArgLists} : ScenarioASend(u) => ScenarioAEnvelope(u)
        /\ (Delivered(ScenarioAResponse) /\ 1 \in DOMAIN _messageCallbacks) =>
              /\ \E i \in CallbackEntries(trace') :
                    trace'[i].arg = [js |-> "object", result |-> UndefinedMarker]
              /\ 1 \notin DOMAIN _messageCallbacks'
      ]_vars

\* the response of Scenario A has just been routed to the callback of the
\* first command
C13_Witness ==
    /\ JustDelivered(ScenarioAResponse)
    /\ Len(calls) >= 1 /\ calls[1].id = 1 /\ calls[1].invoked = 1
    /\ \E i \in CallbackEntries(trace) : trace[i].call = 1
    /\ \A i \in 1..Len(trace) : trace[i].k # "resolve"
    /\ 1 \notin DOMAIN _messageCallbacks


\* C14: a message with an error field is handled as an error whatever else
\* it carries: an `error` notification with the error payload is published,
\* no continuation is invoked, and the table and the calls stay as they were.
C14_ErrorClassifiedFirst ==
    [][ \A msg \in ErrorMessages :
            Delivered(msg) =>
                /\ \E i \in Notifications(trace', "error") : trace'[i].data = msg.error
                /\ CallbackEntries(trace') = {}
                /\ \A i \in 1..Len(trace') :
                      trace'[i].k \in {"onMessage", "trigger", "handler"}
                /\ _messageCallbacks' = _messageCallbacks
                /\ calls' = calls
      ]_vars

\* an error that also carries a result and the id of a pending call has just
\* been delivered, and the call is still pending
C14_Witness ==
    \E msg \in ErrorMessages :
        /\ JustDelivered(msg)
        /\ Truthy(msg.result)
        /\ msg.id \in DOMAIN _messageCallbacks
        /\ \E c \in 1..Len(calls) : calls[c].id = msg.id /\ calls[c].invoked = 0

\* C15: every inbound message, whatever its class, publishes one generic
\* `message` notification carrying it, and publishes it before the error
\* notification, the continuation and the event listeners it triggers.
C15_MessageNotificationFirst ==
    [][ \A msg \in InboundMessages :
            Delivered(msg) =>
                /\ Len(trace') >= 2
                /\ trace'[2] = [k |-> "trigger", target |-> "exports",
                                type |-> "message", data |-> msg]
                /\ Cardinality(Notifications(trace', "message")) = 1
      ]_vars

\* a response has just been routed to its continuation, after the generic
\* notification
C15_Witness ==
    \E msg \in ResponseMessages :
        /\ JustDelivered(msg)
        /\ Len(trace) >= 3
        /\ trace[2].k = "trigger" /\ trace[2].type = "message"
        /\ trace[3].k = "callback"


\* the call was handed to the transport
WasSent(c) == c.id # 0

\* C16: the envelopes reach the transport in the order of the calls, with
\* increasing ids; when an envelope is handed over its id is already in the
\* table under the call that sent it; and a response, whatever the order of
\* arrival, invokes exactly the continuation of the call that was given its
\* id.
C16_CallOrderAndIdMatching ==
    [][ /\ LET ids == SelectSeq(calls', WasSent)
           IN  /\ Len(ids) = Len(sent')
               /\ \A i \in 1..Len(ids) : ids[i].id = sent'[i].id
               /\ \A i, j \in 1..Len(ids) : i < j => ids[i].id < ids[j].id
        /\ \A i \in 1..Len(trace') :
              trace'[i].k = "postMessage" =>
                  /\ trace'[i].message.id \in DOMAIN _messageCallbacks'
                  /\ _messageCallbacks'[trace'[i].message.id].call = Len(calls')
                  /\ calls'[Len(calls')].id = trace'[i].message.id
        /\ \A msg \in ResponseMessages :
              (Delivered(msg) /\ msg.id \in DOMAIN _messageCallbacks) =>
                  /\ Cardinality(CallbackEntries(trace')) = 1
                  /\ \A i \in CallbackEntries(trace') :
                        calls[trace'[i].call].id = msg.id
      ]_vars

\* the second command has been answered while the first one is still pending
C16_Witness ==
    \E msg \in ResponseMessages :
        /\ JustDelivered(msg)
        /\ Len(calls) = 2
        /\ calls[1].id = 1 /\ calls[1].invoked = 0
        /\ calls[2].id = 2 /\ calls[2].invoked = 1
        /\ msg.id = 2
        /\ 1 \in DOMAIN _messageCallbacks

\* C17: a call made without a trailing callable returns a future-like
\* handle, which completes with the result payload when the response with
\* the call's id is routed; a trailing callable is used as the continuation
\* and is not matched against the declared parameters.
C17_PromiseStyleReturnsHandle ==
    [][ /\ \A m \in Methods, args \in ArgLists :
              _send(m, args, "promise") =>
                  trace'[Len(trace')] =
                      [k |-> "return",
                       value |-> [js |-> "object", promise |-> Len(calls')]]
        /\ \A msg \in ResponseMessages :
              (Delivered(msg) /\ msg.id \in DOMAIN _messageCallbacks
                 /\ _messageCallbacks[msg.id].style = "promise") =>
                  \E i \in 1..Len(trace') :
                      /\ trace'[i].k = "resolve"
                      /\ trace'[i].promise = _messageCallbacks[msg.id].call
                      /\ trace'[i].arg = normalize(msg.result)
        /\ \A m \in Methods, args \in ArgLists :
              _send(m, args, "callback") =>
                  \A i \in 1..Len(trace') :
                      trace'[i].k = "postMessage" =>
                          /\ trace'[i].message.params = sendParams(Schema[m], args)
                          /\ _messageCallbacks'[trace'[i].message.id].style = "callback"
      ]_vars


\* the parameters of a signature whose argument was supplied
Supplied(signature, args) ==
    {i \in 1..Len(signature) : ArgAt(args, i) # JSUndefined}

\* the step handed an envelope for the method m to a port
Posted(m) ==
    \E i \in 1..Len(trace') :
        trace'[i].k = "postMessage" /\ trace'[i].message.method = m

C19_SingleNumericErrorCode ==
    \A i \in 1..Len(fsCalls) :
        /\ Len(fsCalls[i].cb) <= 1
        /\ fsCalls[i].chain = <<>> =>
              /\ Len(fsCalls[i].cb) = 1
              /\ fsCalls[i].cb[1].js = "number"
              /\ fsCalls[i].cb[1].val = NO_ERROR <=> ~fsCalls[i].failed


\* C21: once disconnect() has been called the client stays disconnected and
\* no port is opened until the next connect() or connectToURL(): disconnect()
\* leaves connected() falsy, and the reply to an attach request that was
\* issued before it opens no port and leaves connected() falsy.
C21_DisconnectedUntilNextConnect ==
    [][ /\ disconnect => ~Truthy(connected')
        /\ \A a \in pendingAttach :
              (a.n \in superseded /\ a \notin pendingAttach') =>
                  /\ _portId' = _portId
                  /\ ports' = ports
                  /\ ~Truthy(connected')
      ]_vars

\* C22: connected() is truthy exactly when the current port is open; the
\* closure of a port that is not the current one leaves the current port
\* reference alone and publishes no `disconnect`, and a message arriving
\* while there is no current port is not routed to a continuation.
C22_OnlyCurrentPortCounts ==
    [][ /\ Truthy(connected') =>
              /\ connected'.port \in DOMAIN ports'
              /\ ports'[connected'.port].open
        /\ \A p \in DOMAIN ports :
              (Truthy(_port) /\ _port.port # p /\ _onDisconnect(p)) =>
                  /\ _port' = _port
                  /\ Notifications(trace', "disconnect") = {}
        /\ \A msg \in ResponseMessages :
              (~Truthy(_port) /\ Delivered(msg)) => CallbackEntries(trace') = {}
      ]_vars

\* C23: every future returned by connectToURL is settled in the end when
\* every attach request is answered; in particular, in a state where every
\* attach request issued so far has been answered, and where nothing more
\* happens unless the client is called again, no future is still pending.
C23_FutureSettledOnceAnswered ==
    pendingAttach = {} => Unsettled = {}

====
